---- MODULE Spec2Model ----
(***************************************************************************)
(* The sequential collaborative pipeline of                                *)
(* src/orchestrators/sequential_orchestrator.py                            *)
(* (architecture -> implementation -> review -> (refinement -> review)*    *)
(* -> documentation) and the score aggregation of                          *)
(* src/middleware/evaluation_middleware.py.                                *)
(*                                                                         *)
(* Time is counted in tenths of a second (the budget floor of 0.1 s is 1). *)
(* A text is a record of the attributes of a string that the code reads.   *)
(***************************************************************************)
EXTENDS Integers, Sequences, FiniteSets, TLC

VARIABLES
    pc,              \* position of execute_workflow: "idle", the stage whose executor
                     \* call is in flight, "post_refiner", "done", "aborted", "cancelled"
    config,          \* the loaded orchestration configuration
    middleware,      \* self.middleware, the registered middleware list
    max_iterations,  \* argument of execute_workflow
    now,             \* time.time() - start_time
    timeout,         \* timeout of the executor call in flight
    stages,          \* local list stages
    context,         \* local dict context
    iterations,      \* local iterations
    issues_found,    \* local issues_found
    result,          \* <<>> or <<the WorkflowResult returned>>
    hook_log,        \* middleware execute() calls made so far, in order
    eval_mw,         \* an EvaluationMiddleware instance (flags, pass_threshold)
    eval_locals,     \* <<>> or <<the locals of its last _run_evaluations call>>
    execute_result,  \* <<>> or <<the dict its last execute() call returned>>
    call_log,        \* the executor calls the run has issued, in order, each with
                     \* its timeout, the time it was issued at and what became of it
    suspended,       \* the frame of a second execute_workflow call on the same
                     \* orchestrator, while the event loop runs the first
    converted        \* a text followed by the results of the extract_code calls
                     \* made on it, each applied to the result before it

vars == <<pc, config, middleware, max_iterations, now, timeout, stages, context,
          iterations, issues_found, result, hook_log, eval_mw, eval_locals, execute_result,
          call_log, suspended, converted>>

pipeline_vars == <<pc, config, middleware, max_iterations, now, timeout, stages, context,
                   iterations, issues_found, result, hook_log, call_log, suspended>>
eval_vars == <<eval_mw, eval_locals, execute_result>>
text_vars == <<converted>>

Max(a, b) == IF a >= b THEN a ELSE b
Min(a, b) == IF a <= b THEN a ELSE b

(***************************************************************************)
(* Bounds of the model.                                                    *)
(***************************************************************************)
\* max_iterations ranges over 0 .. MaxIterations
MaxIterations == 2
\* max_iterations ranges over 0 .. MaxLoopIterations in SpecLoop
MaxLoopIterations == 3
\* the texts given to extract_code are made of up to MaxTokens tokens
MaxTokens == 6
\* duration of an executor call that answers (1 s)
Fast == 10
\* duration of a middleware execute() that runs its evaluators (15 s)
HookSlow == 150

(***************************************************************************)
(* Program constants.                                                      *)
(***************************************************************************)
\* max(0.1, ...) in budget_left
BUDGET_FLOOR == 1
\* budget_left() > 10 in the refine loop
REFINE_FLOOR == 100
\* budget_left() > 10 before documentation
DOCUMENT_FLOOR == 100
\* len(final_implementation.strip()) > 50
MIN_OUTPUT_LEN == 50
\* len(output.strip()) > 100 in _architect_stage
MIN_ARCHITECTURE_LEN == 100
\* multipliers.get(stage_name, 1.0), in tenths
DEFAULT_MULTIPLIER == 10

(***************************************************************************)
(* Texts.  err: the text starts with "[ERROR]"; len, slen: its length and  *)
(* the length of text.strip(); blocks: the contents of its fenced code     *)
(* regions in order of occurrence; json: what                              *)
(* re.search(r"\{.*\}") and json.loads make of it ("nomatch", "object",    *)
(* "invalid" for a JSONDecodeError, "deep" for a nesting json.loads gives  *)
(* up on with RecursionError); issues: the issues_found field of the       *)
(* parsed object; kw: one of "critical", "bug", "issue" occurs in          *)
(* text.lower(); arch: one of the architecture keywords occurs.            *)
(***************************************************************************)
Txt(tag, err, len, slen, blocks, json, issues, kw, arch) ==
    [tag |-> tag, err |-> err, len |-> len, slen |-> slen, blocks |-> blocks,
     json |-> json, issues |-> issues, kw |-> kw, arch |-> arch]

Block(tag, len, slen) == Txt(tag, FALSE, len, slen, <<>>, "nomatch", "absent", FALSE, FALSE)

EMPTY == Txt("", FALSE, 0, 0, <<>>, "nomatch", "absent", FALSE, FALSE)
TASK == Txt("task", FALSE, 40, 40, <<>>, "nomatch", "absent", FALSE, FALSE)
\* "[ERROR] LLM timeout"
LLM_TIMEOUT == Txt("[ERROR] LLM timeout", TRUE, 19, 19, <<>>, "nomatch", "absent", FALSE, FALSE)
\* f"[ERROR] LLM error: {e}" with a long message
LLM_ERROR == Txt("[ERROR] LLM error", TRUE, 70, 70, <<>>, "nomatch", "absent", FALSE, FALSE)

ArchitectureTexts ==
    { Txt("design", FALSE, 400, 400, <<>>, "nomatch", "absent", FALSE, TRUE),
      Txt("thin", FALSE, 60, 60, <<>>, "nomatch", "absent", FALSE, TRUE) }

CodeTexts ==
    { \* narrative with two fenced regions, the longer one 51 characters stripped
      Txt("fenced51", FALSE, 120, 120,
          <<Block("snippet", 20, 20), Block("code51", 53, 51)>>,
          "nomatch", "absent", FALSE, FALSE),
      \* unfenced text, 30 characters
      Txt("plain30", FALSE, 30, 30, <<>>, "nomatch", "absent", FALSE, FALSE),
      \* unfenced text, 60 characters of which 10 are surrounding whitespace
      Txt("padded60", FALSE, 60, 50, <<>>, "nomatch", "absent", FALSE, FALSE) }

\* the answers drawn for the refinement calls
RefinementTexts == { t \in CodeTexts : t.tag \in {"fenced51", "plain30"} }

ReviewTexts ==
    { Txt("json_issues", FALSE, 90, 90, <<>>, "object", "true", TRUE, FALSE),
      Txt("json_clean", FALSE, 90, 90, <<>>, "object", "false", TRUE, FALSE),
      Txt("json_other", FALSE, 20, 20, <<>>, "object", "absent", FALSE, FALSE),
      Txt("prose_bug", FALSE, 80, 80, <<>>, "nomatch", "absent", TRUE, FALSE),
      Txt("prose_fine", FALSE, 80, 80, <<>>, "nomatch", "absent", FALSE, FALSE),
      Txt("json_deep", FALSE, 5000, 5000, <<>>, "deep", "absent", FALSE, FALSE) }

DocumentationTexts ==
    { Txt("readme", FALSE, 300, 300, <<>>, "nomatch", "absent", FALSE, FALSE) }

\* What the task executor does with one call: it answers with a text
\* ("reply"), it raises ("raise"), or it does not answer before the timeout
\* ("hang").
Behaviours(texts, failures) ==
    { [kind |-> "reply", text |-> t] : t \in texts }
        \cup { [kind |-> k, text |-> EMPTY] : k \in failures }

(***************************************************************************)
(* Configuration (config/orchestration_config.py); multipliers in tenths.  *)
(***************************************************************************)
DefaultConfig ==
    [total_budget_seconds |-> 9000, default_stage_timeout |-> 1800,
     stage_multipliers |-> [architecture |-> 15, implementation |-> 12, review |-> 10,
                            refinement |-> 10, documentation |-> 10, testing |-> 10]]

Configs ==
    { DefaultConfig,
      \* total budget 5 s, architecture multiplier 1.5
      [total_budget_seconds |-> 50, default_stage_timeout |-> 1800,
       stage_multipliers |-> [architecture |-> 15]],
      \* total budget 60 s, stage timeout 20 s, review multiplier 1.5
      [total_budget_seconds |-> 600, default_stage_timeout |-> 200,
       stage_multipliers |-> [architecture |-> 15, implementation |-> 12, review |-> 15]],
      \* default_stage_timeout: 0
      [total_budget_seconds |-> 600, default_stage_timeout |-> 0,
       stage_multipliers |-> [architecture |-> 15]] }

get_total_budget == config.total_budget_seconds
get_default_stage_timeout == config.default_stage_timeout

get_stage_multiplier(stage_name) ==
    IF stage_name \in DOMAIN config.stage_multipliers
    THEN config.stage_multipliers[stage_name]
    ELSE DEFAULT_MULTIPLIER

TOTAL_BUDGET_S == get_total_budget
STAGE_TIMEOUT_S == get_default_stage_timeout
ARCHITECTURE_TIMEOUT_MULTIPLIER == get_stage_multiplier("architecture")
IMPLEMENTATION_TIMEOUT_MULTIPLIER == get_stage_multiplier("implementation")

\* x * m for a multiplier m given in tenths
Scaled(x, m) == (x * m) \div 10

\* the remaining budget taken for the whole budget
budget_left_ignoring_elapsed(t) == Max(BUDGET_FLOOR, TOTAL_BUDGET_S)

budget_left(t) == Max(BUDGET_FLOOR, TOTAL_BUDGET_S - t)

arch_timeout(t) == Min(Scaled(STAGE_TIMEOUT_S, ARCHITECTURE_TIMEOUT_MULTIPLIER), budget_left(t))
impl_timeout(t) == Min(Scaled(STAGE_TIMEOUT_S, IMPLEMENTATION_TIMEOUT_MULTIPLIER), budget_left(t))
review_timeout(t) == Min(STAGE_TIMEOUT_S, budget_left(t))
refine_timeout(t) == Min(STAGE_TIMEOUT_S, budget_left(t))
doc_timeout(t) == Min(STAGE_TIMEOUT_S, budget_left(t))

(***************************************************************************)
(* FormatConverter.extract_code                                            *)
(***************************************************************************)
\* str.strip()
Strip(text) == [text EXCEPT !.len = text.slen]

\* sorted(blocks, key=len, reverse=True)[0]: the longest fenced region, the
\* first one among equally long ones (the sort is stable)
LargestBlock(blocks) ==
    blocks[CHOOSE i \in DOMAIN blocks :
               /\ \A j \in DOMAIN blocks : blocks[j].len <= blocks[i].len
               /\ \A j \in DOMAIN blocks : j < i => blocks[j].len < blocks[i].len]

extract_code(text) ==
    IF text.len = 0 THEN text
    ELSE IF text.blocks # <<>> THEN Strip(LargestBlock(text.blocks))
    ELSE text

(***************************************************************************)
(* _call_llm: asyncio.wait_for(execute_agent_task, timeout) with the       *)
(* TimeoutError and every other Exception turned into an "[ERROR]" text.   *)
(* A call that would last the timeout or longer is cut at the timeout.     *)
(***************************************************************************)
InTime(beh, t) == beh.kind # "hang" /\ Fast < t

\* _call_llm without the "except asyncio.TimeoutError" clause: the timeout
\* falls to "except Exception"
_call_llm_timeout_as_error(beh, t) ==
    IF ~InTime(beh, t) THEN [output |-> LLM_ERROR, elapsed |-> t, status |-> "cancelled"]
    ELSE IF beh.kind = "raise" THEN [output |-> LLM_ERROR, elapsed |-> Fast, status |-> "raised"]
    ELSE [output |-> beh.text, elapsed |-> Fast, status |-> "returned"]

\* the timeout taken with asyncio.wait and the pending call left alone
_call_llm_without_cancel(beh, t) ==
    IF ~InTime(beh, t) THEN [output |-> LLM_TIMEOUT, elapsed |-> t, status |-> "running"]
    ELSE IF beh.kind = "raise" THEN [output |-> LLM_ERROR, elapsed |-> Fast, status |-> "raised"]
    ELSE [output |-> beh.text, elapsed |-> Fast, status |-> "returned"]

\* status: what became of the executor call; at the timeout wait_for cancels
\* the call and waits for the cancellation before it raises TimeoutError
_call_llm(beh, t) ==
    IF ~InTime(beh, t) THEN [output |-> LLM_TIMEOUT, elapsed |-> t, status |-> "cancelled"]
    ELSE IF beh.kind = "raise" THEN [output |-> LLM_ERROR, elapsed |-> Fast, status |-> "raised"]
    ELSE [output |-> beh.text, elapsed |-> Fast, status |-> "returned"]

\* The record of the executor calls.  Issue: wait_for starts the call under
\* the timeout t at time at.  Settle: the call in flight ended and the stage
\* function built stage_result from it.
Issue(log, stage, t, at) ==
    Append(log, [stage |-> stage, timeout |-> t, at |-> at, status |-> "running",
                 elapsed |-> 0, result |-> <<>>])

Settle(log, call, stage_result) ==
    [log EXCEPT ![Len(log)] = [@ EXCEPT !.status = call.status,
                                        !.elapsed = call.elapsed,
                                        !.result = <<stage_result>>]]

(***************************************************************************)
(* The stage functions: each turns the answer of _call_llm into a          *)
(* StageResult.  (Their own "except Exception" branch is not reachable,    *)
(* _call_llm raises no Exception.)                                         *)
(***************************************************************************)
StageResult(stage, output, duration, success) ==
    [stage |-> stage, output |-> output, duration_seconds |-> duration, success |-> success]

_architect_stage(call) ==
    StageResult("architecture", call.output, call.elapsed,
                /\ ~call.output.err
                /\ call.output.slen > MIN_ARCHITECTURE_LEN
                /\ call.output.arch)

_coder_stage(call) ==
    StageResult("implementation", extract_code(call.output), call.elapsed, ~call.output.err)

_reviewer_stage(call) ==
    StageResult("review", call.output, call.elapsed, ~call.output.err)

\* the refinement stage recorded under the coder's stage name
_coder_refine_stage_as_coder(call) ==
    StageResult("implementation", extract_code(call.output), call.elapsed, ~call.output.err)

_coder_refine_stage(call) ==
    StageResult("refinement", extract_code(call.output), call.elapsed, ~call.output.err)

_documenter_stage(call) ==
    StageResult("documentation", call.output, call.elapsed, ~call.output.err)

(***************************************************************************)
(* _parse_review_result                                                    *)
(***************************************************************************)
\* json.loads raises RecursionError, which the except clause
\* (JSONDecodeError, ValueError) does not catch
ParseRaises(review_output) == review_output.json = "deep"

\* the keyword test taking the "[ERROR]" texts of _call_llm for issues
_parse_review_result_error_is_issue(review_output) ==
    IF review_output.json = "object"
    THEN review_output.issues = "true"
    ELSE review_output.kw \/ review_output.err

_parse_review_result(review_output) ==
    IF review_output.json = "object"
    THEN review_output.issues = "true"
    ELSE review_output.kw

\* the loop condition with the iteration test off by one
RefineConditionOffByOne(issues, iters, maxit, t) ==
    issues /\ iters <= maxit /\ budget_left(t) > REFINE_FLOOR

\* the loop condition without the verdict of the review
RefineConditionIgnoringVerdict(issues, iters, maxit, t) ==
    iters < maxit /\ budget_left(t) > REFINE_FLOOR

\* the loop condition without the budget test
RefineConditionNoBudget(issues, iters, maxit, t) ==
    issues /\ iters < maxit

\* while issues_found and iterations < max_iterations and budget_left() > 10
RefineCondition(issues, iters, maxit, t) ==
    issues /\ iters < maxit /\ budget_left(t) > REFINE_FLOOR

\* the documentation stage run whatever budget is left
DocumentConditionAlways(t) == TRUE

\* if budget_left() > 10: (line 354)
DocumentCondition(t) == budget_left(t) > DOCUMENT_FLOOR

(***************************************************************************)
(* Context: a dict from keys to values.                                    *)
(***************************************************************************)
Put(ctx, key, value) ==
    [k \in DOMAIN ctx \cup {key} |-> IF k = key THEN value ELSE ctx[k]]

Get(ctx, key, default) == IF key \in DOMAIN ctx THEN ctx[key] ELSE default

(***************************************************************************)
(* Middleware (middleware/base_middleware.py) and the hook loops.          *)
(***************************************************************************)
POST_REFINER == "post_refiner"
POST_DOCUMENTER == "post_documenter"

\* What one execute() call does: it returns a dict with an evaluation
\* ("evaluation"), a dict without one ("none"), or it raises ("raises");
\* "should_execute_raises": the should_execute() call before it raises.
Outcome(kind, passed, elapsed) == [kind |-> kind, passed |-> passed, elapsed |-> elapsed]

\* An EvaluationMiddleware instance: its enabled flag, get_hooks(),
\* gate_on_failure, and what execute() does at each hook; the passed of an
\* Outcome is the passed flag of the aggregated evaluation.
EvaluationMiddleware(enabled, gate_on_failure, at_refiner, at_documenter) ==
    [class |-> "EvaluationMiddleware", enabled |-> enabled,
     hooks |-> {POST_REFINER, POST_DOCUMENTER}, gate_on_failure |-> gate_on_failure,
     execute |-> [post_refiner |-> at_refiner, post_documenter |-> at_documenter]]

\* An instance of another subclass of BaseMiddleware, subscribed to hooks;
\* the passed of an Outcome is the passed entry of the dict it returns.
OtherMiddleware(enabled, hooks, at_refiner, at_documenter) ==
    [class |-> "BaseMiddleware", enabled |-> enabled, hooks |-> hooks,
     gate_on_failure |-> FALSE,
     execute |-> [post_refiner |-> at_refiner, post_documenter |-> at_documenter]]

Registries ==
    { <<>>,
      <<EvaluationMiddleware(TRUE, FALSE, Outcome("evaluation", TRUE, 0),
                             Outcome("none", TRUE, 0))>>,
      \* gate_on_failure = True and an evaluation that fails
      <<EvaluationMiddleware(TRUE, TRUE, Outcome("evaluation", FALSE, HookSlow),
                             Outcome("raises", FALSE, 0))>>,
      <<EvaluationMiddleware(FALSE, FALSE, Outcome("evaluation", TRUE, 0),
                             Outcome("evaluation", TRUE, 0))>>,
      \* a middleware that raises at POST_REFINER, registered before the evaluation
      <<OtherMiddleware(TRUE, {POST_REFINER}, Outcome("raises", FALSE, 0),
                        Outcome("none", TRUE, 0)),
        EvaluationMiddleware(TRUE, FALSE, Outcome("evaluation", TRUE, 0),
                             Outcome("evaluation", TRUE, 0))>>,
      \* two evaluations, a lenient and a strict one
      <<EvaluationMiddleware(TRUE, FALSE, Outcome("evaluation", TRUE, 0),
                             Outcome("evaluation", TRUE, 0)),
        EvaluationMiddleware(TRUE, FALSE, Outcome("evaluation", FALSE, 0),
                             Outcome("evaluation", FALSE, 0))>>,
      \* a middleware whose execute() raises after 15 s at POST_REFINER and
      \* whose should_execute() raises at POST_DOCUMENTER, before an evaluation
      <<OtherMiddleware(TRUE, {POST_REFINER, POST_DOCUMENTER},
                        Outcome("raises", FALSE, HookSlow),
                        Outcome("should_execute_raises", FALSE, 0)),
        EvaluationMiddleware(TRUE, FALSE, Outcome("evaluation", TRUE, 0),
                             Outcome("evaluation", TRUE, 0))>> }

should_execute(mw, hook) == mw.enabled /\ hook \in mw.hooks

\* mw.should_execute(hook) raises (an overriding subclass, or get_hooks())
should_execute_raises(mw, hook) == mw.execute[hook].kind = "should_execute_raises"

\* The dict execute() returns at a hook when it does not raise; the
\* evaluation is identified by the middleware (its index i in the list) and
\* the hook it was made at.  EvaluationMiddleware: should_pass = result.passed
\* or not self.gate_on_failure.
mw_execute(mw, i, hook) ==
    LET out == mw.execute[hook]
    IN  [passed |-> IF mw.class = "EvaluationMiddleware"
                    THEN out.passed \/ ~mw.gate_on_failure
                    ELSE out.passed,
         evaluation |-> IF out.kind = "evaluation"
                        THEN <<[by |-> i, hook |-> hook, passed |-> out.passed]>>
                        ELSE <<>>]

\* for mw in self.middleware: ... from index i on; the log gets one entry
\* for each execute() call with what it returned (<<>> when it raised), the
\* number of StageResults appended and of executor calls issued before it;
\* raised: an exception left the loop
RECURSIVE HookLoop(_, _, _, _)
HookLoop(hook, key, i, acc) ==
    IF i > Len(middleware) THEN acc
    ELSE IF should_execute_raises(middleware[i], hook) THEN [acc EXCEPT !.raised = TRUE]
    ELSE IF ~should_execute(middleware[i], hook) THEN HookLoop(hook, key, i + 1, acc)
    ELSE
        LET out == middleware[i].execute[hook]
            mw_result == mw_execute(middleware[i], i, hook)
            called == [acc EXCEPT
                         !.elapsed = @ + out.elapsed,
                         !.log = Append(@, [hook |-> hook, mw |-> i,
                                            returned |-> IF out.kind = "raises" THEN <<>>
                                                         ELSE <<mw_result>>,
                                            stages |-> acc.stages,
                                            calls |-> acc.calls])]
        IN  IF out.kind = "raises" THEN [called EXCEPT !.raised = TRUE]
            ELSE IF mw_result.evaluation # <<>>
            THEN HookLoop(hook, key, i + 1,
                          [called EXCEPT !.context = Put(@, key, mw_result.evaluation[1])])
            ELSE HookLoop(hook, key, i + 1, called)

\* the accumulator of the hook loop when it starts, stgs being the stages list
HookStart(ctx, stgs) ==
    [context |-> ctx, elapsed |-> 0, log |-> hook_log, raised |-> FALSE,
     stages |-> Len(stgs), calls |-> Len(call_log)]

\* the hook loop without its try/except: the exception leaves the hook
RunHookUncaught(hook, key, ctx, stgs) ==
    IF middleware = <<>> THEN HookStart(ctx, stgs)
    ELSE HookLoop(hook, key, 1, HookStart(ctx, stgs))

\* if self.middleware and MiddlewareHook: try: for mw in ... except Exception
RunHook(hook, key, ctx, stgs) ==
    IF middleware = <<>> THEN HookStart(ctx, stgs)
    ELSE [HookLoop(hook, key, 1, HookStart(ctx, stgs)) EXCEPT !.raised = FALSE]

(***************************************************************************)
(* The WorkflowResult records.                                             *)
(***************************************************************************)
all_stages_succeeded(stgs) ==
    Len(stgs) > 0 /\ \A i \in DOMAIN stgs : stgs[i].success

\* the content-length test with >= in place of >
has_valid_output_inclusive(ctx) ==
    Get(ctx, "final_implementation", EMPTY).slen >= MIN_OUTPUT_LEN

has_valid_output(ctx) ==
    Get(ctx, "final_implementation", EMPTY).slen > MIN_OUTPUT_LEN

WorkflowResult(stgs, ctx, iters, t) ==
    [run_id |-> ctx.run_id,
     stages |-> stgs,
     final_output |-> Get(ctx, "final_implementation", EMPTY),
     iterations |-> iters,
     total_duration_seconds |-> t,
     success |-> all_stages_succeeded(stgs) /\ has_valid_output(ctx)]

\* an aborted result that reports the stages' own success
AbortedResultStageSuccess(stgs, ctx, t) ==
    [run_id |-> ctx.run_id, stages |-> stgs, final_output |-> EMPTY, iterations |-> 0,
     total_duration_seconds |-> t, success |-> all_stages_succeeded(stgs)]

\* the result built by "except Exception"
AbortedResult(stgs, ctx, t) ==
    [run_id |-> ctx.run_id, stages |-> stgs, final_output |-> EMPTY, iterations |-> 0,
     total_duration_seconds |-> t, success |-> FALSE]

\* the locals of one execute_workflow call
Frame(f_pc, f_max_iterations, f_now, f_timeout, f_stages, f_context, f_iterations, f_issues_found, f_result, f_call_log) ==
    [pc |-> f_pc, max_iterations |-> f_max_iterations, now |-> f_now,
     timeout |-> f_timeout, stages |-> f_stages, context |-> f_context,
     iterations |-> f_iterations, issues_found |-> f_issues_found,
     result |-> f_result, call_log |-> f_call_log]

\* a call that has not started
IdleFrame == Frame("idle", 0, 0, 0, <<>>, <<>>, 0, FALSE, <<>>, <<>>)

\* the locals of the call the event loop is running
CurrentFrame ==
    Frame(pc, max_iterations, now, timeout, stages, context, iterations, issues_found,
          result, call_log)

\* str(uuid.uuid4()): an identifier no other run has; 1 for the call that
\* starts first, 2 for the other
uuid4 == IF suspended.pc = "idle" THEN 1 ELSE 2

(***************************************************************************)
(* EvaluationMiddleware (middleware/evaluation_middleware.py).  Scores and *)
(* pass_threshold are counted in thousandths, the weights in hundredths,   *)
(* so the weighted sum `overall` is counted in units of 0.00001.  The      *)
(* arithmetic is exact; the code computes the same sum in binary floating  *)
(* point.                                                                  *)
(***************************************************************************)
\* self.weights
WEIGHT_SECURITY == 30
WEIGHT_STATIC_ANALYSIS == 30
WEIGHT_COMPLEXITY == 20
WEIGHT_LLM_JUDGE == 20
\* the per-evaluator gate 0.6
MIN_EVALUATOR_SCORE == 600
\* the score of an evaluator that raised, 0.5
NEUTRAL_SCORE == 500
\* the score of an evaluator that is not enabled, 0.0
DISABLED_SCORE == 0
\* pass_threshold: float = 0.7
DEFAULT_PASS_THRESHOLD == 700

Evaluators == {"security", "static_analysis", "complexity", "llm_judge"}

\* the constructor's arguments
NewEvaluationMiddleware(enable, pass_threshold, gate_on_failure) ==
    [enable |-> enable, pass_threshold |-> pass_threshold,
     gate_on_failure |-> gate_on_failure]

DefaultEvaluationMiddleware ==
    NewEvaluationMiddleware([e \in Evaluators |-> TRUE], DEFAULT_PASS_THRESHOLD, FALSE)

\* the order in which _run_evaluations calls the evaluators
EvaluatorOrder == <<"security", "static_analysis", "complexity", "llm_judge">>

\* The evaluate() calls one aggregation makes, from position i of the order
\* on: every enabled evaluator is called inside its own try/except Exception,
\* so a call that raises does not end the sequence.
RECURSIVE evaluate_calls(_, _, _)
evaluate_calls(mw, outs, i) ==
    IF i > Len(EvaluatorOrder) THEN <<>>
    ELSE IF ~mw.enable[EvaluatorOrder[i]] THEN evaluate_calls(mw, outs, i + 1)
    ELSE <<[evaluator |-> EvaluatorOrder[i], raised |-> outs[EvaluatorOrder[i]].raised]>>
             \o evaluate_calls(mw, outs, i + 1)

\* the except clause leaving the initial 0.0 in place
evaluator_score_zero_on_failure(enabled, out) ==
    IF ~enabled THEN DISABLED_SCORE
    ELSE IF out.raised THEN DISABLED_SCORE
    ELSE out.overall

\* the except clause assigning the gate value 0.6 as the neutral score
evaluator_score_neutral_at_gate(enabled, out) ==
    IF ~enabled THEN DISABLED_SCORE
    ELSE IF out.raised THEN MIN_EVALUATOR_SCORE
    ELSE out.overall

\* lines 171-225: the score of one evaluator after its try/except
evaluator_score(enabled, out) ==
    IF ~enabled THEN DISABLED_SCORE
    ELSE IF out.raised THEN NEUTRAL_SCORE
    ELSE out.overall

evaluators_run(mw, outs) ==
    Cardinality({e \in Evaluators : mw.enable[e] /\ ~outs[e].raised})

evaluators_failed(mw, outs) ==
    Cardinality({e \in Evaluators : mw.enable[e] /\ outs[e].raised})

\* the weighted sum with the judge weighted 0.30
weighted_overall_heavy_judge(security_score, static_score, complexity_score, llm_score) ==
    security_score * WEIGHT_SECURITY + static_score * WEIGHT_STATIC_ANALYSIS
        + complexity_score * WEIGHT_COMPLEXITY + llm_score * 30

\* lines 228-233
weighted_overall(security_score, static_score, complexity_score, llm_score) ==
    security_score * WEIGHT_SECURITY + static_score * WEIGHT_STATIC_ANALYSIS
        + complexity_score * WEIGHT_COMPLEXITY + llm_score * WEIGHT_LLM_JUDGE

\* the pass rule without the per-evaluator gate
passed_rule_average_only(overall, security_score, static_score, complexity_score, llm_score, pass_threshold) ==
    overall >= pass_threshold * 100

\* lines 236-242
passed_rule(overall, security_score, static_score, complexity_score, llm_score, pass_threshold) ==
    /\ overall >= pass_threshold * 100
    /\ security_score >= MIN_EVALUATOR_SCORE
    /\ static_score >= MIN_EVALUATOR_SCORE
    /\ complexity_score >= MIN_EVALUATOR_SCORE
    /\ llm_score >= MIN_EVALUATOR_SCORE

\* the locals of _run_evaluations when it reaches its return statement
run_locals(mw, outs) ==
    LET security_score == evaluator_score(mw.enable["security"], outs["security"])
        static_score == evaluator_score(mw.enable["static_analysis"], outs["static_analysis"])
        complexity_score == evaluator_score(mw.enable["complexity"], outs["complexity"])
        llm_score == evaluator_score(mw.enable["llm_judge"], outs["llm_judge"])
        overall == weighted_overall(security_score, static_score, complexity_score, llm_score)
    IN  [security_score |-> security_score, static_score |-> static_score,
         complexity_score |-> complexity_score, llm_score |-> llm_score,
         overall |-> overall,
         passed |-> passed_rule(overall, security_score, static_score, complexity_score,
                                llm_score, mw.pass_threshold),
         evaluators_run |-> evaluators_run(mw, outs),
         evaluators_failed |-> evaluators_failed(mw, outs),
         calls |-> evaluate_calls(mw, outs, 1)]

\* round(overall, 3): the nearest thousandth; which neighbour a value half
\* way between two thousandths goes to depends on its binary representation
Round3(overall) ==
    IF overall % 100 < 50 THEN {overall \div 100}
    ELSE IF overall % 100 > 50 THEN {overall \div 100 + 1}
    ELSE {overall \div 100, overall \div 100 + 1}

\* lines 249-265; the individual scores are thousandths, round(score, 3)
\* leaves them as they are
AggregatedEvaluationResult(locals, overall_score) ==
    [overall_score |-> overall_score,
     passed |-> locals.passed,
     security_score |-> locals.security_score,
     static_analysis_score |-> locals.static_score,
     complexity_score |-> locals.complexity_score,
     llm_judge_score |-> locals.llm_score,
     evaluators_run |-> locals.evaluators_run,
     evaluators_failed |-> locals.evaluators_failed]

\* lines 142-159: the dict execute() returns
ExecuteResult(mw, aggregated) ==
    [passed |-> aggregated.passed \/ ~mw.gate_on_failure,
     evaluation |-> <<aggregated>>]

\* lines 132-134
NoCodeResult == [passed |-> TRUE, evaluation |-> <<>>]

\* Inputs of the aggregation.
ScoreValues == {0, 500, 599, 600, 698, 1000}
PassThresholds == {500, DEFAULT_PASS_THRESHOLD, 800}

EvaluatorOutcomes ==
    { [raised |-> FALSE, overall |-> s] : s \in ScoreValues }
        \cup { [raised |-> TRUE, overall |-> 0] }

\* every evaluator enabled, or all but one
EnableFlags ==
    { [e \in Evaluators |-> e # off] : off \in Evaluators \cup {"none"} }

InitEval ==
    /\ pc = "idle"
    /\ config = DefaultConfig
    /\ middleware = <<>>
    /\ max_iterations = 0
    /\ now = 0
    /\ timeout = 0
    /\ stages = <<>>
    /\ context = <<>>
    /\ iterations = 0
    /\ issues_found = FALSE
    /\ result = <<>>
    /\ hook_log = <<>>
    /\ eval_mw \in { NewEvaluationMiddleware(en, th, gate) :
                       en \in EnableFlags, th \in PassThresholds, gate \in BOOLEAN }
    /\ eval_locals = <<>>
    /\ execute_result = <<>>
    /\ call_log = <<>>
    /\ suspended = IdleFrame
    /\ converted = <<>>

\* execute() on a context that carries code: lines 127-159 and _run_evaluations
Execute(outs) ==
    /\ execute_result = <<>>
    /\ LET locals == run_locals(eval_mw, outs)
       IN  /\ eval_locals' = <<locals>>
           /\ \E overall_score \in Round3(locals.overall) :
                  execute_result' = <<ExecuteResult(eval_mw,
                                     AggregatedEvaluationResult(locals, overall_score))>>
    /\ UNCHANGED <<pipeline_vars, eval_mw, text_vars>>

\* execute() on a context without code: lines 132-134
ExecuteNoCode ==
    /\ execute_result = <<>>
    /\ execute_result' = <<NoCodeResult>>
    /\ UNCHANGED <<pipeline_vars, eval_mw, eval_locals, text_vars>>

NextEval ==
    \/ \E outs \in [Evaluators -> EvaluatorOutcomes] : Execute(outs)
    \/ ExecuteNoCode

SpecEval == InitEval /\ [][NextEval]_vars

(***************************************************************************)
(* execute_workflow.  The coroutine is suspended only while an executor    *)
(* call is in flight; each action runs it from one such point to the next. *)
(***************************************************************************)
InFlight == {"architecture", "implementation", "review", "refinement", "documentation"}

Init ==
    /\ pc = "idle"
    /\ config \in Configs
    /\ middleware \in Registries
    /\ max_iterations = 0
    /\ now = 0
    /\ timeout = 0
    /\ stages = <<>>
    /\ context = <<>>
    /\ iterations = 0
    /\ issues_found = FALSE
    /\ result = <<>>
    /\ hook_log = <<>>
    /\ eval_mw = DefaultEvaluationMiddleware
    /\ eval_locals = <<>>
    /\ execute_result = <<>>
    /\ call_log = <<>>
    /\ suspended = IdleFrame
    /\ converted = <<>>

\* lines 272-288: the run starts and the architecture call is issued
ExecuteWorkflow(maxit) ==
    /\ pc = "idle"
    /\ max_iterations' = maxit
    /\ now' = 0
    /\ stages' = <<>>
    /\ context' = [original_request |-> TASK, run_id |-> uuid4]
    /\ timeout' = arch_timeout(0)
    /\ call_log' = Issue(<<>>, "architecture", arch_timeout(0), 0)
    /\ pc' = "architecture"
    /\ UNCHANGED <<config, middleware, iterations, issues_found, result, hook_log,
                   eval_vars, text_vars,
                   suspended>>

\* the architecture step stopping the run when its stage did not succeed
ArchitectReturnsFailClosed(beh) ==
    /\ pc = "architecture"
    /\ LET call == _call_llm(beh, timeout)
           arch_result == _architect_stage(call)
       IN  /\ now' = now + call.elapsed
           /\ stages' = Append(stages, arch_result)
           /\ context' = Put(context, "architecture", arch_result.output)
           /\ IF arch_result.success
              THEN /\ timeout' = impl_timeout(now + call.elapsed)
                   /\ call_log' = Issue(Settle(call_log, call, arch_result), "implementation",
                                        impl_timeout(now + call.elapsed), now + call.elapsed)
                   /\ pc' = "implementation"
                   /\ result' = result
              ELSE /\ timeout' = 0
                   /\ call_log' = Settle(call_log, call, arch_result)
                   /\ pc' = "aborted"
                   /\ result' = <<AbortedResult(Append(stages, arch_result), context,
                                                now + call.elapsed)>>
    /\ UNCHANGED <<config, middleware, max_iterations, iterations, issues_found,
                   hook_log, eval_vars, text_vars,
                   suspended>>

\* lines 288-295: the architecture call returns, the implementation call is issued
ArchitectReturns(beh) ==
    /\ pc = "architecture"
    /\ LET call == _call_llm(beh, timeout)
           arch_result == _architect_stage(call)
       IN  /\ now' = now + call.elapsed
           /\ stages' = Append(stages, arch_result)
           /\ context' = Put(context, "architecture", arch_result.output)
           /\ timeout' = impl_timeout(now + call.elapsed)
           /\ call_log' = Issue(Settle(call_log, call, arch_result), "implementation",
                                impl_timeout(now + call.elapsed), now + call.elapsed)
           /\ pc' = "implementation"
    /\ UNCHANGED <<config, middleware, max_iterations, iterations, issues_found,
                   result, hook_log, eval_vars, text_vars,
                   suspended>>

\* lines 295-302: the implementation call returns, the review call is issued
CoderReturns(beh) ==
    /\ pc = "implementation"
    /\ LET call == _call_llm(beh, timeout)
           impl_result == _coder_stage(call)
       IN  /\ now' = now + call.elapsed
           /\ stages' = Append(stages, impl_result)
           /\ context' = Put(context, "implementation", impl_result.output)
           /\ timeout' = review_timeout(now + call.elapsed)
           /\ call_log' = Issue(Settle(call_log, call, impl_result), "review",
                                review_timeout(now + call.elapsed), now + call.elapsed)
           /\ pc' = "review"
    /\ UNCHANGED <<config, middleware, max_iterations, iterations, issues_found,
                   result, hook_log, eval_vars, text_vars,
                   suspended>>

\* lines 302-317 and 323-327, 311-317: a review call returns; its output is
\* parsed and the loop condition decides between one more refinement and
\* leaving the loop.  An exception of the parse is caught at line 395.
ReviewerReturns(beh) ==
    /\ pc = "review"
    /\ LET call == _call_llm(beh, timeout)
           review_result == _reviewer_stage(call)
           t == now + call.elapsed
       IN  /\ now' = t
           /\ stages' = Append(stages, review_result)
           /\ context' = Put(context, "review", review_result.output)
           /\ IF ParseRaises(review_result.output)
              THEN /\ pc' = "aborted"
                   /\ result' = <<AbortedResult(Append(stages, review_result), context, t)>>
                   /\ timeout' = 0
                   /\ call_log' = Settle(call_log, call, review_result)
                   /\ UNCHANGED <<iterations, issues_found>>
              ELSE /\ issues_found' = _parse_review_result(review_result.output)
                   /\ result' = result
                   /\ IF RefineCondition(issues_found', iterations, max_iterations, t)
                      THEN /\ iterations' = iterations + 1
                           /\ timeout' = refine_timeout(t)
                           /\ call_log' = Issue(Settle(call_log, call, review_result),
                                                "refinement", refine_timeout(t), t)
                           /\ pc' = "refinement"
                      ELSE /\ iterations' = iterations
                           /\ timeout' = 0
                           /\ call_log' = Settle(call_log, call, review_result)
                           /\ pc' = "post_refiner"
    /\ UNCHANGED <<config, middleware, max_iterations, hook_log, eval_vars, text_vars,
                   suspended>>

\* the refinement step keeping the earlier implementation when the
\* refinement did not succeed
RefinerReturnsKeepOnFailure(beh) ==
    /\ pc = "refinement"
    /\ LET call == _call_llm(beh, timeout)
           refine_result == _coder_refine_stage(call)
       IN  /\ now' = now + call.elapsed
           /\ stages' = Append(stages, refine_result)
           /\ context' = IF refine_result.success
                         THEN Put(context, "implementation", refine_result.output)
                         ELSE context
           /\ timeout' = review_timeout(now + call.elapsed)
           /\ call_log' = Issue(Settle(call_log, call, refine_result), "review",
                                review_timeout(now + call.elapsed), now + call.elapsed)
           /\ pc' = "review"
    /\ UNCHANGED <<config, middleware, max_iterations, iterations, issues_found,
                   result, hook_log, eval_vars, text_vars, suspended>>

\* lines 317-323: the refinement call returns, the re-review call is issued
RefinerReturns(beh) ==
    /\ pc = "refinement"
    /\ LET call == _call_llm(beh, timeout)
           refine_result == _coder_refine_stage(call)
       IN  /\ now' = now + call.elapsed
           /\ stages' = Append(stages, refine_result)
           /\ context' = Put(context, "implementation", refine_result.output)
           /\ timeout' = review_timeout(now + call.elapsed)
           /\ call_log' = Issue(Settle(call_log, call, refine_result), "review",
                                review_timeout(now + call.elapsed), now + call.elapsed)
           /\ pc' = "review"
    /\ UNCHANGED <<config, middleware, max_iterations, iterations, issues_found,
                   result, hook_log, eval_vars, text_vars,
                   suspended>>

\* lines 329-356 and 378-393: after the loop, final_implementation is set, the
\* POST_REFINER hook runs, and the documentation call is issued when the
\* budget allows; otherwise the result is returned
PostRefiner ==
    /\ pc = "post_refiner"
    /\ LET ctx == Put(context, "final_implementation", context["implementation"])
           hook == RunHook(POST_REFINER, "refiner_evaluation", ctx, stages)
           t == now + hook.elapsed
       IN  /\ now' = t
           /\ context' = hook.context
           /\ hook_log' = hook.log
           /\ IF hook.raised
              THEN /\ timeout' = 0
                   /\ call_log' = call_log
                   /\ pc' = "aborted"
                   /\ result' = <<AbortedResult(stages, hook.context, t)>>
              ELSE IF DocumentCondition(t)
              THEN /\ timeout' = doc_timeout(t)
                   /\ call_log' = Issue(call_log, "documentation", doc_timeout(t), t)
                   /\ pc' = "documentation"
                   /\ result' = result
              ELSE /\ timeout' = 0
                   /\ call_log' = call_log
                   /\ pc' = "done"
                   /\ result' = <<WorkflowResult(stages, hook.context, iterations, t)>>
    /\ UNCHANGED <<config, middleware, max_iterations, stages, iterations, issues_found,
                   eval_vars, text_vars,
                   suspended>>

\* the documentation step running the POST_DOCUMENTER hook before the
\* StageResult is appended
DocumenterReturnsHookFirst(beh) ==
    /\ pc = "documentation"
    /\ LET call == _call_llm(beh, timeout)
           doc_result == _documenter_stage(call)
           hook == RunHook(POST_DOCUMENTER, "documenter_evaluation", context, stages)
           ctx == Put(hook.context, "documentation", doc_result.output)
           t == now + call.elapsed + hook.elapsed
       IN  /\ now' = t
           /\ stages' = Append(stages, doc_result)
           /\ hook_log' = hook.log
           /\ timeout' = 0
           /\ call_log' = Settle(call_log, call, doc_result)
           /\ context' = ctx
           /\ pc' = "done"
           /\ result' = <<WorkflowResult(Append(stages, doc_result), ctx, iterations, t)>>
    /\ UNCHANGED <<config, middleware, max_iterations, iterations, issues_found,
                   eval_vars, text_vars, suspended>>

\* lines 356-393: the documentation call returns, the POST_DOCUMENTER hook
\* runs and the result is returned
DocumenterReturns(beh) ==
    /\ pc = "documentation"
    /\ LET call == _call_llm(beh, timeout)
           doc_result == _documenter_stage(call)
           hook == RunHook(POST_DOCUMENTER, "documenter_evaluation", context,
                           Append(stages, doc_result))
           ctx == Put(hook.context, "documentation", doc_result.output)
           t == now + call.elapsed + hook.elapsed
       IN  /\ now' = t
           /\ stages' = Append(stages, doc_result)
           /\ hook_log' = hook.log
           /\ timeout' = 0
           /\ call_log' = Settle(call_log, call, doc_result)
           /\ IF hook.raised
              THEN /\ context' = hook.context
                   /\ pc' = "aborted"
                   /\ result' = <<AbortedResult(Append(stages, doc_result), hook.context, t)>>
              ELSE /\ context' = ctx
                   /\ pc' = "done"
                   /\ result' = <<WorkflowResult(Append(stages, doc_result), ctx,
                                                 iterations, t)>>
    /\ UNCHANGED <<config, middleware, max_iterations, iterations, issues_found,
                   eval_vars, text_vars,
                   suspended>>

\* The caller cancels the task while an executor call is in flight:
\* wait_for cancels the call and raises asyncio.CancelledError, a
\* BaseException that no "except Exception" of _call_llm, of the stage or of
\* execute_workflow (line 395) catches; it reaches the caller.
Cancel ==
    /\ pc \in InFlight
    /\ pc' = "cancelled"
    /\ timeout' = 0
    /\ call_log' = [call_log EXCEPT ![Len(call_log)].status = "cancelled"]
    /\ UNCHANGED <<config, middleware, max_iterations, now, stages, context, iterations,
                   issues_found, result, hook_log, eval_vars, text_vars,
                   suspended>>

Next ==
    \/ \E maxit \in 0 .. MaxIterations : ExecuteWorkflow(maxit)
    \/ \E beh \in Behaviours(ArchitectureTexts, {"hang"}) : ArchitectReturns(beh)
    \/ \E beh \in Behaviours(CodeTexts, {"hang", "raise"}) : CoderReturns(beh)
    \/ \E beh \in Behaviours(ReviewTexts, {"hang", "raise"}) : ReviewerReturns(beh)
    \/ \E beh \in Behaviours(RefinementTexts, {"hang"}) : RefinerReturns(beh)
    \/ PostRefiner
    \/ \E beh \in Behaviours(DocumentationTexts, {"hang"}) : DocumenterReturns(beh)
    \/ Cancel

Spec == Init /\ [][Next]_vars

(***************************************************************************)
(* Runs of the default max_iterations = 3 and less, without middleware:    *)
(* the refine loop under reviewers that report issues, report none, time   *)
(* out or answer with a nesting the parser gives up on.                    *)
(***************************************************************************)
LoopArchitecture == { b \in Behaviours(ArchitectureTexts, {}) : b.text.tag = "design" }
LoopCode == { b \in Behaviours(CodeTexts, {"hang"}) : b.text.tag \in {"", "fenced51"} }
LoopReview == { b \in Behaviours(ReviewTexts, {"hang"}) : b.text.tag # "json_other" }
LoopRefinement == { b \in Behaviours(RefinementTexts, {"hang"}) : b.text.tag \in {"", "fenced51"} }
LoopDocumentation == Behaviours(DocumentationTexts, {})

InitLoop ==
    /\ pc = "idle"
    /\ config \in { c \in Configs : c.default_stage_timeout > 0 /\ c.total_budget_seconds > 100 }
    /\ middleware = <<>>
    /\ max_iterations = 0
    /\ now = 0
    /\ timeout = 0
    /\ stages = <<>>
    /\ context = <<>>
    /\ iterations = 0
    /\ issues_found = FALSE
    /\ result = <<>>
    /\ hook_log = <<>>
    /\ eval_mw = DefaultEvaluationMiddleware
    /\ eval_locals = <<>>
    /\ execute_result = <<>>
    /\ call_log = <<>>
    /\ suspended = IdleFrame
    /\ converted = <<>>

NextLoop ==
    \/ \E maxit \in 0 .. MaxLoopIterations : ExecuteWorkflow(maxit)
    \/ \E beh \in LoopArchitecture : ArchitectReturns(beh)
    \/ \E beh \in LoopCode : CoderReturns(beh)
    \/ \E beh \in LoopReview : ReviewerReturns(beh)
    \/ \E beh \in LoopRefinement : RefinerReturns(beh)
    \/ PostRefiner
    \/ \E beh \in LoopDocumentation : DocumenterReturns(beh)

SpecLoop == InitLoop /\ [][NextLoop]_vars

(***************************************************************************)
(* Two execute_workflow calls on one orchestrator, interleaved by the      *)
(* event loop.  The variables pc .. call_log hold the locals of the call   *)
(* that is running, suspended those of the other; config and middleware    *)
(* belong to the orchestrator and the module and are common to both.  Each *)
(* call counts its own elapsed time.                                       *)
(***************************************************************************)
\* the stages list kept on the orchestrator instead of in the call
SwitchSharedStages ==
    /\ pc # "post_refiner"
    /\ pc' = suspended.pc
    /\ max_iterations' = suspended.max_iterations
    /\ now' = suspended.now
    /\ timeout' = suspended.timeout
    /\ stages' = stages
    /\ context' = suspended.context
    /\ iterations' = suspended.iterations
    /\ issues_found' = suspended.issues_found
    /\ result' = suspended.result
    /\ call_log' = suspended.call_log
    /\ suspended' = CurrentFrame
    /\ UNCHANGED <<config, middleware, hook_log, eval_vars, text_vars>>

\* The event loop takes up the other call: the running one has reached an
\* await (an executor call in flight), has not started or has ended.
Switch ==
    /\ pc # "post_refiner"
    /\ pc' = suspended.pc
    /\ max_iterations' = suspended.max_iterations
    /\ now' = suspended.now
    /\ timeout' = suspended.timeout
    /\ stages' = suspended.stages
    /\ context' = suspended.context
    /\ iterations' = suspended.iterations
    /\ issues_found' = suspended.issues_found
    /\ result' = suspended.result
    /\ call_log' = suspended.call_log
    /\ suspended' = CurrentFrame
    /\ UNCHANGED <<config, middleware, hook_log, eval_vars, text_vars>>

\* the answers of the executor in the interleaved runs
RunsArchitecture == { b \in Behaviours(ArchitectureTexts, {"hang"}) : b.text.tag # "thin" }
RunsCode == { b \in Behaviours(CodeTexts, {}) : b.text.tag # "padded60" }
RunsReview == { b \in Behaviours(ReviewTexts, {"raise"}) :
                    b.text.tag \in {"", "json_issues", "json_clean", "json_deep"} }
RunsRefinement == { b \in Behaviours(RefinementTexts, {}) : b.text.tag = "fenced51" }
RunsDocumentation == Behaviours(DocumentationTexts, {"hang"})

InitRuns ==
    /\ pc = "idle"
    /\ config = DefaultConfig
    /\ middleware \in { r \in Registries : Len(r) = 1 /\ r[1].enabled }
    /\ max_iterations = 0
    /\ now = 0
    /\ timeout = 0
    /\ stages = <<>>
    /\ context = <<>>
    /\ iterations = 0
    /\ issues_found = FALSE
    /\ result = <<>>
    /\ hook_log = <<>>
    /\ eval_mw = DefaultEvaluationMiddleware
    /\ eval_locals = <<>>
    /\ execute_result = <<>>
    /\ call_log = <<>>
    /\ suspended = IdleFrame
    /\ converted = <<>>

NextRuns ==
    \/ \E maxit \in 0 .. 1 : ExecuteWorkflow(maxit)
    \/ \E beh \in RunsArchitecture : ArchitectReturns(beh)
    \/ \E beh \in RunsCode : CoderReturns(beh)
    \/ \E beh \in RunsReview : ReviewerReturns(beh)
    \/ \E beh \in RunsRefinement : RefinerReturns(beh)
    \/ PostRefiner
    \/ \E beh \in RunsDocumentation : DocumenterReturns(beh)
    \/ Cancel
    \/ Switch

SpecRuns == InitRuns /\ [][NextRuns]_vars

(***************************************************************************)
(* FormatConverter.extract_code on the characters of a text.  A text is a  *)
(* sequence of characters: the backtick, a character of the language tag  *)
(* class [a-zA-Z0-9_+\-#], a whitespace character and a character that is  *)
(* none of them.                                                           *)
(***************************************************************************)
\* the backtick character
BACKTICK == "tick"
LanguageChars == {"a"}
Whitespace == {" "}

\* the pieces the texts are built of: a fence, a single backtick, one character
Tokens == { <<BACKTICK, BACKTICK, BACKTICK>>, <<BACKTICK>>, <<"a">>, <<" ">>, <<".">> }

RECURSIVE Flatten(_)
Flatten(tokens) ==
    IF tokens = <<>> THEN <<>> ELSE Head(tokens) \o Flatten(Tail(tokens))

Texts == { Flatten(ts) : ts \in UNION { [1 .. n -> Tokens] : n \in 0 .. MaxTokens } }

\* ``` at position i of text
IsFence(text, i) ==
    /\ i >= 1 /\ i + 2 <= Len(text)
    /\ text[i] = BACKTICK /\ text[i + 1] = BACKTICK /\ text[i + 2] = BACKTICK

\* a greedy character class: the first position from i on that is not in it
RECURSIVE SkipWhile(_, _, _)
SkipWhile(text, i, class) ==
    IF i <= Len(text) /\ text[i] \in class THEN SkipWhile(text, i + 1, class) ELSE i

\* ([\s\S]*)``` : the body taken greedily, up to the last fence from i on (0: none)
RECURSIVE FindLastFence(_, _)
FindLastFence(text, i) ==
    IF i + 2 > Len(text) THEN 0
    ELSE LET later == FindLastFence(text, i + 1)
         IN  IF later # 0 THEN later ELSE IF IsFence(text, i) THEN i ELSE 0

\* ([\s\S]*?)``` : the position of the first fence from i on (0: none)
RECURSIVE FindFence(_, _)
FindFence(text, i) ==
    IF i + 2 > Len(text) THEN 0
    ELSE IF IsFence(text, i) THEN i
    ELSE FindFence(text, i + 1)

\* re.findall(r"```(?:[a-zA-Z0-9_+\-#]+)?\s*([\s\S]*?)```", text), scanning
\* from position i: the matches do not overlap, each one yields its body.
\* The tag and the whitespace are taken greedily; giving characters back
\* cannot produce a match, since a closing fence has no character of them.
RECURSIVE findall(_, _)
findall(text, i) ==
    IF i > Len(text) THEN <<>>
    ELSE IF ~IsFence(text, i) THEN findall(text, i + 1)
    ELSE LET body == SkipWhile(text, SkipWhile(text, i + 3, LanguageChars), Whitespace)
             close == FindFence(text, body)
         IN  IF close = 0 THEN findall(text, i + 1)
             ELSE <<SubSeq(text, body, close - 1)>> \o findall(text, close + 3)

\* str.strip() on characters
RECURSIVE strip(_)
strip(text) ==
    IF text = <<>> THEN text
    ELSE IF Head(text) \in Whitespace THEN strip(Tail(text))
    ELSE IF text[Len(text)] \in Whitespace THEN strip(SubSeq(text, 1, Len(text) - 1))
    ELSE text

\* sorted(blocks, key=lambda b: len(b), reverse=True)[0]
blocks_sorted_first(blocks) ==
    blocks[CHOOSE i \in DOMAIN blocks :
               /\ \A j \in DOMAIN blocks : Len(blocks[j]) <= Len(blocks[i])
               /\ \A j \in DOMAIN blocks : j < i => Len(blocks[j]) < Len(blocks[i])]

\* extract_code(text: str) -> str
extract_code_text(text) ==
    IF text = <<>> THEN text
    ELSE LET blocks == findall(text, 1)
         IN  IF blocks # <<>> THEN strip(blocks_sorted_first(blocks)) ELSE text

InitExtract ==
    /\ pc = "idle"
    /\ config = DefaultConfig
    /\ middleware = <<>>
    /\ max_iterations = 0
    /\ now = 0
    /\ timeout = 0
    /\ stages = <<>>
    /\ context = <<>>
    /\ iterations = 0
    /\ issues_found = FALSE
    /\ result = <<>>
    /\ hook_log = <<>>
    /\ eval_mw = DefaultEvaluationMiddleware
    /\ eval_locals = <<>>
    /\ execute_result = <<>>
    /\ call_log = <<>>
    /\ suspended = IdleFrame
    /\ converted \in { <<text>> : text \in Texts }

\* FormatConverter.extract_code(text), text being the result of the call before
ExtractCode ==
    /\ Len(converted) \in 1 .. 2
    /\ converted' = Append(converted, extract_code_text(converted[Len(converted)]))
    /\ UNCHANGED <<pipeline_vars, eval_vars>>

NextExtract == ExtractCode

SpecExtract == InitExtract /\ [][NextExtract]_vars

(***************************************************************************)
(* Properties.                                                             *)
(***************************************************************************)
Count(stgs, name) == Cardinality({i \in DOMAIN stgs : stgs[i].stage = name})

Last(seq) == seq[Len(seq)]

\* a stage result was appended by this step
Appended(name) ==
    /\ Len(stages') = Len(stages) + 1
    /\ Last(stages').stage = name

\* C1: for every max_iterations >= 0 and every sequence of review outputs a
\* run performs at most max_iterations refinement stages and at most
\* max_iterations + 1 review stages, no refinement call is issued once
\* max_iterations refinements are done, and the returned iteration count
\* never exceeds max_iterations.
C1_LoopBounded ==
    /\ Count(stages, "refinement") <= max_iterations
    /\ Count(stages, "review") <= max_iterations + 1
    /\ pc = "refinement" => Count(stages, "refinement") < max_iterations
    /\ iterations <= max_iterations
    /\ result # <<>> => result[1].iterations <= max_iterations

\* a run whose reviewer reported issues at every review, ended by the cap
C1_Witness ==
    /\ pc = "done"
    /\ max_iterations = 2
    /\ result[1].iterations = 2
    /\ Count(result[1].stages, "refinement") = 2
    /\ Count(result[1].stages, "review") = 3
    /\ \A i \in DOMAIN stages :
           stages[i].stage = "review" => _parse_review_result(stages[i].output)

C3_Success ==
    pc = "done" =>
        (result[1].success <=>
            /\ \A i \in DOMAIN result[1].stages : result[1].stages[i].success
            /\ result[1].final_output.slen > 50)

\* every stage succeeded and the stripped final output has exactly 50 characters
C3_Witness ==
    /\ pc = "done"
    /\ \A i \in DOMAIN result[1].stages : result[1].stages[i].success
    /\ result[1].final_output.slen = 50
    /\ result[1].final_output.len > 50
    /\ ~result[1].success

StageOrder(stgs) ==
    \A i \in DOMAIN stgs :
        /\ i = 1 => stgs[i].stage = "architecture"
        /\ i = 2 => stgs[i].stage = "implementation"
        /\ i = 3 => stgs[i].stage = "review"
        /\ i > 3 =>
            /\ stgs[i].stage \in {"refinement", "review", "documentation"}
            /\ stgs[i].stage = "refinement" => stgs[i - 1].stage = "review"
            /\ stgs[i].stage = "review" => stgs[i - 1].stage = "refinement"
            /\ stgs[i].stage = "documentation" =>
                   stgs[i - 1].stage = "review" /\ i = Len(stgs)

\* C5: at every point of every run the stage names of stages are a prefix of
\* architecture, implementation, review, (refinement, review)*,
\* documentation; each returning executor call appends exactly one
\* StageResult, named after the stage that was in flight; the call in flight
\* is the one that follows the last appended stage; a returned result carries
\* the list.
C5_StageOrder ==
    /\ StageOrder(stages)
    /\ pc = "architecture" => stages = <<>>
    /\ pc = "implementation" => Len(stages) = 1
    /\ pc = "review" => Last(stages).stage \in {"implementation", "refinement"}
    /\ pc \in {"refinement", "post_refiner", "documentation"} => Last(stages).stage = "review"
    /\ pc = "done" => Last(stages).stage \in {"review", "documentation"}
    /\ result # <<>> => result[1].stages = stages

\* a run of eight stages: two refinements and the documentation
C5_Witness ==
    /\ pc = "done"
    /\ Len(stages) = 8
    /\ Count(stages, "refinement") = 2
    /\ Last(stages).stage = "documentation"

\* the position after a stage whose call timed out
AfterTimeout(stage) ==
    CASE stage = "architecture" -> "implementation"
      [] stage = "implementation" -> "review"
      [] stage = "review" -> "post_refiner"
      [] stage = "refinement" -> "review"
      [] stage = "documentation" -> "done"

\* C6: when the executor call of a stage lasts up to the timeout given to the
\* stage, the stage yields a StageResult with the output
\* "[ERROR] LLM timeout" and success = false, and the run is not aborted: it
\* goes on to the next stage of the sequence (after a review, to the
\* POST_REFINER hook and the documentation).
C6_TimeoutFailsOpen ==
    [][ (pc \in InFlight /\ Len(stages') = Len(stages) + 1
            /\ Last(stages').duration_seconds = timeout) =>
          /\ Last(stages').stage = pc
          /\ Last(stages').output.tag = "[ERROR] LLM timeout"
          /\ Last(stages').output.err
          /\ ~Last(stages').success
          /\ pc' = AfterTimeout(pc) ]_vars

\* the implementation call timed out and the review call is in flight
C6_Witness ==
    /\ pc = "review"
    /\ Len(stages) = 2
    /\ stages[2].output = LLM_TIMEOUT
    /\ ~stages[2].success
    /\ stages[1].success

\* C7: once the architecture call returns the implementation call is issued,
\* and once the implementation call returns the review call is issued,
\* whatever the success flag and output of the stage that returned.
C7_FailOpen ==
    [][ /\ Appended("architecture") => pc' = "implementation"
        /\ Appended("implementation") => pc' = "review" ]_vars

\* the review call in flight after a failed architecture and a failed implementation
C7_Witness ==
    /\ pc = "review"
    /\ Len(stages) = 2
    /\ ~stages[1].success
    /\ ~stages[2].success

\* C8: if the caller cancels the run while a stage call is in flight, the run
\* ends with a WorkflowResult with success = false that contains every
\* StageResult completed before the cancellation.
C8_CancelAborts ==
    pc = "cancelled" =>
        /\ Len(result) = 1
        /\ result[1].success = FALSE
        /\ result[1].stages = stages

\* the individual scores of an aggregation all reach the gate
AllReachGate(locals) ==
    /\ locals.security_score >= 600
    /\ locals.static_score >= 600
    /\ locals.complexity_score >= 600
    /\ locals.llm_score >= 600

C10_WeightedSum ==
    /\ WEIGHT_SECURITY + WEIGHT_STATIC_ANALYSIS + WEIGHT_COMPLEXITY + WEIGHT_LLM_JUDGE = 100
    /\ eval_locals # <<>> =>
        LET locals == eval_locals[1]
            aggregated == execute_result[1].evaluation[1]
        IN  /\ locals.overall = 30 * locals.security_score + 30 * locals.static_score
                                  + 20 * locals.complexity_score + 20 * locals.llm_score
            /\ locals.overall >= 0 /\ locals.overall <= 100000
            /\ aggregated.overall_score >= 0 /\ aggregated.overall_score <= 1000
            /\ aggregated.overall_score * 100 - locals.overall <= 50
            /\ locals.overall - aggregated.overall_score * 100 <= 50

\* four different scores, and a sum that is not a whole number of thousandths
C10_Witness ==
    /\ eval_locals # <<>>
    /\ eval_locals[1].evaluators_run = 4
    /\ eval_locals[1].security_score = 1000
    /\ eval_locals[1].static_score = 600
    /\ eval_locals[1].complexity_score = 698
    /\ eval_locals[1].llm_score = 599
    /\ eval_locals[1].overall = 73940
    /\ execute_result[1].evaluation[1].overall_score = 739

\* the score an aggregation result reports for an evaluator
ScoreOf(aggregated, evaluator) ==
    CASE evaluator = "security" -> aggregated.security_score
      [] evaluator = "static_analysis" -> aggregated.static_analysis_score
      [] evaluator = "complexity" -> aggregated.complexity_score
      [] evaluator = "llm_judge" -> aggregated.llm_judge_score

\* C11: whichever of the enabled evaluators raise during one aggregation,
\* the aggregation returns a result; every enabled evaluator is called once,
\* those after a raising one included; the dimension of each evaluator that
\* raised has the score 0.5; evaluators_failed is the number of calls that
\* raised and evaluators_run the number that returned (one raising evaluator
\* among four gives 1 and 3).
C11_FailureIsolation ==
    eval_locals # <<>> =>
        LET calls == eval_locals[1].calls
            raising == {i \in DOMAIN calls : calls[i].raised}
        IN  /\ Len(execute_result) = 1
            /\ Len(execute_result[1].evaluation) = 1
            /\ \A e \in Evaluators :
                   Cardinality({i \in DOMAIN calls : calls[i].evaluator = e})
                       = IF eval_mw.enable[e] THEN 1 ELSE 0
            /\ \A i \in raising :
                   ScoreOf(execute_result[1].evaluation[1], calls[i].evaluator) = 500
            /\ execute_result[1].evaluation[1].evaluators_failed = Cardinality(raising)
            /\ execute_result[1].evaluation[1].evaluators_run
                   = Len(calls) - Cardinality(raising)
            /\ (Len(calls) = 4 /\ Cardinality(raising) = 1) =>
                   /\ execute_result[1].evaluation[1].evaluators_failed = 1
                   /\ execute_result[1].evaluation[1].evaluators_run = 3

\* the first evaluator raised, the three after it were run and returned 1.0:
\* overall 0.5 x 0.30 + 0.70 = 0.85
C11_Witness ==
    /\ eval_locals # <<>>
    /\ Len(eval_locals[1].calls) = 4
    /\ eval_locals[1].calls[1].raised
    /\ \A i \in 2 .. 4 : ~eval_locals[1].calls[i].raised
    /\ execute_result[1].evaluation[1].security_score = 500
    /\ execute_result[1].evaluation[1].overall_score = 850
    /\ execute_result[1].evaluation[1].evaluators_failed = 1
    /\ execute_result[1].evaluation[1].evaluators_run = 3

\* C12: for every configuration and every elapsed time the timeout of each
\* executor call is at most the remaining budget at the time the call was
\* issued and at least the floor of 0.1 s.
C12_TimeoutWithinBudget ==
    \A i \in DOMAIN call_log :
        /\ call_log[i].timeout <= Max(BUDGET_FLOOR, config.total_budget_seconds - call_log[i].at)
        /\ call_log[i].timeout >= BUDGET_FLOOR

\* C13: the timeout of the executor call of every stage is min(remaining
\* budget, default_stage_timeout x multiplier of the stage), the multiplier
\* being 1.0 for a stage the configuration does not name.
C13_TimeoutFormula ==
    \A i \in DOMAIN call_log :
        call_log[i].timeout =
            Min(Max(BUDGET_FLOOR, config.total_budget_seconds - call_log[i].at),
                Scaled(config.default_stage_timeout,
                       IF call_log[i].stage \in DOMAIN config.stage_multipliers
                       THEN config.stage_multipliers[call_log[i].stage]
                       ELSE 10))

\* C14: when the remaining budget is at most 10 s (in particular when it has
\* collapsed to the floor of 0.1 s) at the point where the documentation
\* stage would start, the stage is skipped: no executor call is issued, no
\* StageResult is appended and the result is returned without a
\* documentation stage.
C14_DocumentationSkipped ==
    [][ (pc = "post_refiner"
            /\ Max(BUDGET_FLOOR, config.total_budget_seconds - now') <= DOCUMENT_FLOOR) =>
          /\ pc' = "done"
          /\ call_log' = call_log
          /\ stages' = stages
          /\ Len(result') = 1
          /\ Count(result'[1].stages, "documentation") = 0 ]_vars

\* a run returned with the budget collapsed to the floor and no documentation
C14_Witness ==
    /\ pc = "done"
    /\ config.total_budget_seconds - now < BUDGET_FLOOR
    /\ Count(stages, "documentation") = 0
    /\ \A i \in DOMAIN call_log : call_log[i].stage # "documentation"
    /\ Len(stages) >= 3

RECURSIVE SumDurations(_)
SumDurations(stgs) ==
    IF stgs = <<>> THEN 0
    ELSE stgs[Len(stgs)].duration_seconds + SumDurations(SubSeq(stgs, 1, Len(stgs) - 1))

\* the calls issued when less than the floor was left of the budget
LateStarts ==
    {i \in DOMAIN call_log : config.total_budget_seconds - call_log[i].at < BUDGET_FLOOR}

\* C15: with every executor call cut at its timeout, the durations of the
\* stages executed so far add up to at most total_budget plus the floor
\* (0.1 s) for each stage started when the budget was used up.
C15_BudgetRespected ==
    SumDurations(stages) <= config.total_budget_seconds + BUDGET_FLOOR * Cardinality(LateStarts)

\* the architecture call used the whole budget; the two calls after it ran
\* on the floor timeout and were cut off
C15_Witness ==
    /\ pc = "done"
    /\ Cardinality(LateStarts) = 2
    /\ SumDurations(stages) = config.total_budget_seconds + 2 * BUDGET_FLOOR
    /\ stages[1].duration_seconds = config.total_budget_seconds

\* C16: at most one executor call of a run is in flight; every call is issued
\* under a timeout and does not outlast it; a call that timed out was
\* cancelled when the next call is issued; a call is issued only after the
\* StageResult of the call before it was appended.
C16_OneCallInFlight ==
    /\ Cardinality({i \in DOMAIN call_log : call_log[i].status = "running"}) <= 1
    /\ \A i \in DOMAIN call_log :
           /\ call_log[i].status = "running" =>
                  i = Len(call_log) /\ pc = call_log[i].stage
           /\ call_log[i].elapsed <= call_log[i].timeout
           /\ i <= Len(stages) =>
                  /\ call_log[i].result = <<stages[i]>>
                  /\ stages[i].output.tag = "[ERROR] LLM timeout" =>
                         call_log[i].status = "cancelled"
           /\ i > 1 => call_log[i].at >= call_log[i - 1].at + call_log[i - 1].elapsed
    /\ pc \in InFlight => Last(call_log).status = "running"
    /\ Len(call_log) = Len(stages) + (IF pc \in InFlight \/ pc = "cancelled" THEN 1 ELSE 0)

\* the implementation call timed out and was cancelled, the review call is
\* the only one running
C16_Witness ==
    /\ pc = "review"
    /\ Len(call_log) = 3
    /\ call_log[1].status = "returned"
    /\ call_log[2].status = "cancelled"
    /\ call_log[2].elapsed = call_log[2].timeout
    /\ call_log[3].status = "running"
    /\ call_log[3].at = call_log[2].at + call_log[2].timeout

\* the run has passed the hook point
HookReached(hook) ==
    IF hook = POST_REFINER THEN pc \in {"documentation", "done"}
    ELSE pc = "done" /\ Count(stages, "documentation") = 1

\* the execute() calls made at a hook on the i-th registered middleware
ExecuteCalls(hook, i) ==
    {k \in DOMAIN hook_log : hook_log[k].hook = hook /\ hook_log[k].mw = i}

\* C18: at each hook point a run has passed, execute() was called once on
\* every registered middleware that is enabled and subscribed to the hook and
\* not at all on the others.
C18_EveryMiddlewareCalled ==
    \A hook \in {POST_REFINER, POST_DOCUMENTER} :
        HookReached(hook) =>
            \A i \in DOMAIN middleware :
                Cardinality(ExecuteCalls(hook, i))
                    = IF middleware[i].enabled /\ hook \in middleware[i].hooks THEN 1 ELSE 0

LastOutput(stgs, names) ==
    stgs[CHOOSE i \in DOMAIN stgs :
             /\ stgs[i].stage \in names
             /\ \A j \in DOMAIN stgs : stgs[j].stage \in names => j <= i].output

\* f holds nothing but what its own executor calls produced; g is the other call
OwnStateOnly(f, g) ==
    /\ Len(f.stages) <= Len(f.call_log)
    /\ \A i \in DOMAIN f.stages : f.call_log[i].result = <<f.stages[i]>>
    /\ f.pc # "idle" =>
           /\ f.context.original_request = TASK
           /\ g.pc # "idle" => f.context.run_id # g.context.run_id
           /\ \A key \in DOMAIN f.context \cap {"architecture", "review"} :
                  f.context[key] = LastOutput(f.stages, {key})
           /\ "implementation" \in DOMAIN f.context =>
                  f.context.implementation
                      = LastOutput(f.stages, {"implementation", "refinement"})
           /\ "documentation" \in DOMAIN f.context =>
                  f.context.documentation = LastOutput(f.stages, {"documentation"})
    /\ f.pc \notin {"aborted", "cancelled"} =>
           f.iterations = Count(f.stages, "refinement")
                              + (IF f.pc = "refinement" THEN 1 ELSE 0)
    /\ f.result # <<>> =>
           /\ f.result[1].run_id = f.context.run_id
           /\ f.result[1].stages = f.stages
           /\ f.pc = "done" =>
                  /\ f.result[1].iterations = Count(f.stages, "refinement")
                  /\ f.result[1].final_output
                         = LastOutput(f.stages, {"implementation", "refinement"})

\* C17: however two execute_workflow calls on one orchestrator interleave,
\* the stages list, the context, the iteration count and the result of each
\* are built from the outputs of its own executor calls only, and the two
\* runs have different run ids.
C17_RunsIsolated ==
    /\ OwnStateOnly(CurrentFrame, suspended)
    /\ OwnStateOnly(suspended, CurrentFrame)

\* both calls are under way, one in its refinement after three stages, the
\* other, with a different implementation, in its documentation
C17_Witness ==
    /\ pc = "refinement"
    /\ suspended.pc = "documentation"
    /\ context.run_id # suspended.context.run_id
    /\ stages[2].output # suspended.stages[2].output
    /\ Len(hook_log) = 1

\* the verdicts of the reviews of stgs, in order
RECURSIVE ReviewVerdicts(_)
ReviewVerdicts(stgs) ==
    IF stgs = <<>> THEN <<>>
    ELSE LET rest == ReviewVerdicts(SubSeq(stgs, 1, Len(stgs) - 1))
         IN  IF Last(stgs).stage = "review" /\ ~ParseRaises(Last(stgs).output)
             THEN Append(rest, _parse_review_result(Last(stgs).output))
             ELSE rest

\* C21: a run that is not aborted and made k refinements returns 3 + 2k
\* StageResults, one more when the documentation ran, and reports k as its
\* iterations; with max_iterations = 3 and reviews that find issues, find
\* issues and find none, exactly 2 refinements are made, and with the
\* budget of the default configuration the run returns 8 StageResults.
C21_StageCount ==
    pc = "done" =>
        /\ result[1].iterations = Count(result[1].stages, "refinement")
        /\ Len(result[1].stages) = 3 + 2 * result[1].iterations
                                      + Count(result[1].stages, "documentation")
        /\ Count(result[1].stages, "documentation") <= 1
        /\ ( /\ max_iterations = 3
             /\ Len(ReviewVerdicts(stages)) >= 3
             /\ SubSeq(ReviewVerdicts(stages), 1, 3) = <<TRUE, TRUE, FALSE>>
             /\ config = DefaultConfig ) =>
                /\ Count(stages, "refinement") = 2
                /\ Len(stages) = 8

\* max_iterations = 3, the reviews answer issues, issues, none: 8 stages
C21_Witness ==
    /\ pc = "done"
    /\ max_iterations = 3
    /\ config = DefaultConfig
    /\ ReviewVerdicts(stages) = <<TRUE, TRUE, FALSE>>
    /\ \A i \in DOMAIN stages : stages[i].success
    /\ result[1].iterations = 2
    /\ Len(result[1].stages) = 8
    /\ Last(result[1].stages).stage = "documentation"

\* C22: for every review output the issue detection yields a boolean and
\* the run is not aborted by it: the boolean is the issues_found field of
\* the parsed object, and the keyword test when no object is parsed.
C22_DetectionNeverRaises ==
    [][ Appended("review") =>
          LET out == Last(stages').output
          IN  /\ pc' # "aborted"
              /\ issues_found' = IF out.json = "object" THEN out.issues = "true" ELSE out.kw
      ]_vars

\* the log entries of execute() calls whose evaluation was stored in the context
StoredBy(log) ==
    { i \in DOMAIN log : log[i].returned # <<>> /\ log[i].returned[1].evaluation # <<>> }

C24_Idempotent ==
    Len(converted) = 3 => converted[3] = converted[2]

\* a text with two fenced regions, one of them empty, and a fence left open:
\* the result is the stripped body of the longer region
C24_Witness ==
    /\ Len(converted) = 3
    /\ Len(findall(converted[1], 1)) = 2
    /\ \E i \in 1 .. 2 : findall(converted[1], 1)[i] = <<>>
    /\ \E i \in 1 .. 2 : /\ findall(converted[1], 1)[i] # <<>>
                          /\ strip(findall(converted[1], 1)[i]) # findall(converted[1], 1)[i]
    /\ IsFence(converted[1], Len(converted[1]) - 2)
    /\ converted[1][Len(converted[1]) - 3] = " "
    /\ converted[2] # <<>>
    /\ converted[2] # converted[1]
    /\ converted[3] = converted[2]

\* C25: in every run that is not aborted, final_output is the output of the
\* last implementation or refinement StageResult of stages, whether that
\* stage succeeded or not.
C25_FinalOutput ==
    pc = "done" =>
        \E i \in DOMAIN result[1].stages :
            /\ result[1].stages[i].stage \in {"implementation", "refinement"}
            /\ \A j \in DOMAIN result[1].stages :
                   j > i => result[1].stages[j].stage \notin {"implementation", "refinement"}
            /\ result[1].final_output = result[1].stages[i].output

\* the implementation succeeded, the refinement timed out: final_output is
\* the timeout text
C25_Witness ==
    /\ pc = "done"
    /\ \E i \in DOMAIN result[1].stages :
           result[1].stages[i].stage = "implementation" /\ result[1].stages[i].success
    /\ \E i \in DOMAIN result[1].stages :
           /\ result[1].stages[i].stage = "refinement"
           /\ result[1].stages[i].output = LLM_TIMEOUT
           /\ \A j \in DOMAIN result[1].stages :
                  j > i => result[1].stages[j].stage # "refinement"
    /\ result[1].final_output = LLM_TIMEOUT

\* C26: in every WorkflowResult that execute_workflow returns, the results
\* of aborted runs included, iterations is the number of refinement
\* StageResults in its stages.
C26_IterationsCount ==
    result # <<>> => result[1].iterations = Count(result[1].stages, "refinement")

\* C27: an aggregated evaluation has passed = true only if all four
\* evaluators were enabled and none of them raised (evaluators_run = 4,
\* evaluators_failed = 0), whatever the other scores and pass_threshold are:
\* the dimension of an evaluator that is not enabled scores 0.0 and that of
\* one that raised scores under the gate of 0.6.
C27_PassedNeedsAllFour ==
    (execute_result # <<>> /\ execute_result[1].evaluation # <<>>) =>
        LET ev == execute_result[1].evaluation[1]
            calls == eval_locals[1].calls
        IN  /\ ev.passed =>
                  /\ ev.evaluators_run = 4
                  /\ ev.evaluators_failed = 0
                  /\ \A e \in Evaluators : eval_mw.enable[e]
                  /\ \A i \in DOMAIN calls : ~calls[i].raised
            /\ \A e \in Evaluators : ~eval_mw.enable[e] => ScoreOf(ev, e) = 0
            /\ \A i \in DOMAIN calls :
                   calls[i].raised => ScoreOf(ev, calls[i].evaluator) < MIN_EVALUATOR_SCORE

\* pass_threshold 0.5, one evaluator not enabled, one raised, the other two
\* return 1.0: overall_score 0.55 is above the threshold, passed is false
C27_Witness ==
    /\ execute_result # <<>>
    /\ execute_result[1].evaluation # <<>>
    /\ eval_mw.pass_threshold = 500
    /\ Cardinality({e \in Evaluators : ~eval_mw.enable[e]}) = 1
    /\ execute_result[1].evaluation[1].evaluators_failed = 1
    /\ execute_result[1].evaluation[1].evaluators_run = 2
    /\ execute_result[1].evaluation[1].overall_score >= eval_mw.pass_threshold
    /\ ~execute_result[1].evaluation[1].passed

HookRaises(hook) ==
    \E i \in DOMAIN middleware :
        /\ \/ should_execute_raises(middleware[i], hook)
           \/ should_execute(middleware[i], hook) /\ middleware[i].execute[hook].kind = "raises"
        /\ \A j \in 1 .. i - 1 :
               /\ ~should_execute_raises(middleware[j], hook)
               /\ should_execute(middleware[j], hook) =>
                      middleware[j].execute[hook].kind # "raises"

\* stages, final_output, iterations and success of r are those of the
\* result the run returns with no middleware registered
AsWithoutMiddleware(r, stgs, ctx, iters) ==
    /\ r.stages = stgs
    /\ r.final_output = WorkflowResult(stgs, ctx, iters, 0).final_output
    /\ r.iterations = iters
    /\ r.success = WorkflowResult(stgs, ctx, iters, 0).success

\* C29: an exception raised by should_execute or execute of a middleware at
\* a hook does not abort the run: after POST_REFINER the documentation call
\* is issued if the budget then left allows it, and the stages,
\* final_output, iterations and success of the returned result are those of
\* the run with no middleware registered.
C29_HookFailureContained ==
    [][ /\ (pc = "post_refiner" /\ HookRaises(POST_REFINER)) =>
              /\ pc' # "aborted"
              /\ stages' = stages
              /\ iterations' = iterations
              /\ (pc' = "documentation") <=> DocumentCondition(now')
              /\ pc' = "documentation" => timeout' = doc_timeout(now')
              /\ ~DocumentCondition(now') =>
                     /\ pc' = "done"
                     /\ AsWithoutMiddleware(result'[1], stages,
                            Put(context, "final_implementation", context["implementation"]),
                            iterations)
        /\ (Appended("documentation") /\ HookRaises(POST_DOCUMENTER)) =>
              /\ pc' = "done"
              /\ AsWithoutMiddleware(result'[1], stages',
                     Put(context, "documentation", Last(stages').output), iterations)
      ]_vars

\* execute() raised at POST_REFINER after 15 s and should_execute() raised
\* at POST_DOCUMENTER: the documentation ran and the run succeeded
C29_Witness ==
    /\ pc = "done"
    /\ HookRaises(POST_REFINER)
    /\ \E i \in DOMAIN middleware : should_execute_raises(middleware[i], POST_DOCUMENTER)
    /\ \E e \in DOMAIN hook_log : hook_log[e].hook = POST_REFINER /\ hook_log[e].returned = <<>>
    /\ Last(result[1].stages).stage = "documentation"
    /\ result[1].iterations = 1
    /\ result[1].success

\* C30: an execute() call for POST_REFINER is made after the last review
\* StageResult of the run has been appended and before the executor call of
\* the documentation is issued, also in a run without refinements; an
\* execute() call for POST_DOCUMENTER is made after the documentation
\* StageResult has been appended, so never in a run that skipped the
\* documentation.
C30_HookOrdering ==
    \A e \in DOMAIN hook_log :
        /\ hook_log[e].hook = POST_REFINER =>
              /\ hook_log[e].stages >= 3
              /\ stages[hook_log[e].stages].stage = "review"
              /\ \A i \in DOMAIN stages :
                     stages[i].stage = "review" => i <= hook_log[e].stages
              /\ \A c \in DOMAIN call_log :
                     call_log[c].stage = "documentation" => c > hook_log[e].calls
              /\ hook_log[e].calls = hook_log[e].stages
        /\ hook_log[e].hook = POST_DOCUMENTER =>
              /\ hook_log[e].stages = Len(stages)
              /\ stages[hook_log[e].stages].stage = "documentation"
              /\ Count(stages, "documentation") = 1

\* a run without refinements: one execute() call at each hook, the first
\* after the third StageResult, the second after the fourth
C30_Witness ==
    /\ pc = "done"
    /\ Count(stages, "refinement") = 0
    /\ Len(stages) = 4
    /\ \E e \in DOMAIN hook_log :
           hook_log[e].hook = POST_REFINER /\ hook_log[e].stages = 3
    /\ \E e \in DOMAIN hook_log :
           hook_log[e].hook = POST_DOCUMENTER /\ hook_log[e].stages = 4

====
